---- MODULE Spec2Model ----
(***************************************************************************)
(* The event CRUD module of the calendar backend, app/routers/event.py:    *)
(* create_event, add_new_event, get_event_by_id, update_event,             *)
(* delete_event and the eventview handler, over the Event and UserEvent    *)
(* tables as one SQLAlchemy session sees them.                             *)
(*                                                                         *)
(* events and user_events are the two tables as read through the session   *)
(* `db` that every function receives: the rows the session's queries       *)
(* return, the statements of its open transaction included.  No function   *)
(* of the module calls db.rollback(), so a statement that has been         *)
(* executed stays in the session when a later statement of the same try    *)
(* block, or its commit, raises.                                           *)
(*                                                                         *)
(* Every call is made with a Session and with timestamps that compare, so  *)
(* the AttributeError of get_event_by_id and the TypeError of a comparison *)
(* do not arise; a persistence step that raises is an input of the call.   *)
(* op, arg and ret record the call that has just returned.                 *)
(***************************************************************************)
EXTENDS Integers, FiniteSets, TLC

\* Bound of the model: the calls made on one session in one behaviour.
MaxCalls == 3

\* Input domains.  Two timestamps (09:00 and 10:00 of one day) give every
\* ordering of a start and an end.
Time == {9, 10}
Users == {1, 2}
NoValue == "None"
EditableKeys == {"title", "start", "end", "content", "location"}
OtherKeys == {"id", "owner_id"}
Keys == EditableKeys \cup OtherKeys

VARIABLES events, user_events, next_id, calls, op, arg, ret
vars == <<events, user_events, next_id, calls, op, arg, ret>>

\* A dict restricted to some of its keys.
Restrict(f, D) == [k \in D |-> f[k]]

\* The update mappings given to update_event: any subset of the keys.
FullMappings ==
  [title : {"b"}, start : Time, end : Time, content : {"c"},
   location : {"l"}, id : {7}, owner_id : {7}]
Mappings == {Restrict(f, D) : f \in FullMappings, D \in SUBSET Keys}

\* The values given to create_event and add_new_event.
NewValues ==
  [title : {"a"}, start : Time, end : Time, content : {NoValue},
   location : {NoValue}, owner_id : Users]

\* Exception classes a persistence step raises (store-level or type error).
PersistenceErrors == {"SQLAlchemyError", "TypeError"}

NoArg == [event_id |-> 0, event |-> <<>>, fail |-> "none", exc |-> "none"]
NoRet == [kind |-> "none", status |-> 0, rows |-> {}]
Args(event_id, event, fail) ==
  [event_id |-> event_id, event |-> event, fail |-> fail.stage, exc |-> fail.exc]
Returned(kind, status, rows) == [kind |-> kind, status |-> status, rows |-> rows]

\* Where a call's persistence fails, if it does: the step that raises and the
\* exception class (a commit raises the store's error).  The step that raises
\* has no effect; the steps before it have taken effect in the session.
NoFailure == [stage |-> "none", exc |-> "none"]
Failures(stages) ==
  {NoFailure} \cup
  {f \in [stage : stages, exc : PersistenceErrors] :
     f.stage = "commit" => f.exc = "SQLAlchemyError"}

----------------------------------------------------------------------------
\* Pure functions of the module.

\* is_date_before with <= for <.
is_date_before_or_equal(start_date, end_date) == start_date <= end_date

is_date_before(start_date, end_date) == start_date < end_date

\* is_it_possible_to_change_dates comparing with the stored end only.
is_it_possible_ignoring_new_end(old_event, event) ==
  is_date_before(
    IF "start" \in DOMAIN event THEN event["start"] ELSE old_event.start,
    old_event.end)

is_it_possible_to_change_dates(old_event, event) ==
  is_date_before(
    IF "start" \in DOMAIN event THEN event["start"] ELSE old_event.start,
    IF "end" \in DOMAIN event THEN event["end"] ELSE old_event.end)

\* get_items_that_can_be_updated with owner_id among the keys kept.
get_items_with_owner_id(event) ==
  Restrict(event, DOMAIN event \cap (EditableKeys \cup {"owner_id"}))

get_items_that_can_be_updated(event) ==
  Restrict(event, DOMAIN event \cap EditableKeys)

\* check_date_validation with <= for <.
check_date_validation_or_equal(start_time, end_time) == start_time <= end_time

check_date_validation(start_time, end_time) == start_time < end_time

\* get_event_by_id with first() for one(): no MultipleResultsFound.
get_event_by_id_first(tbl, event_id) ==
  LET found == {e \in tbl : e.id = event_id}
  IN  IF found = {} THEN [tag |-> "NoResultFound", rows |-> {}]
      ELSE [tag |-> "ok", rows |-> {CHOOSE e \in found : TRUE}]

\* db.query(Event).filter_by(id=event_id).one(), and the exception
\* get_event_by_id raises in its place.
get_event_by_id(tbl, event_id) ==
  LET found == {e \in tbl : e.id = event_id}
  IN  IF found = {} THEN [tag |-> "NoResultFound", rows |-> {}]
      ELSE IF Cardinality(found) > 1
           THEN [tag |-> "MultipleResultsFound", rows |-> {}]
           ELSE [tag |-> "ok", rows |-> found]

\* The bulk update without its filter: every row is updated.
BulkUpdateEveryRow(tbl, event_id, event_to_update) ==
  {[k \in DOMAIN e |->
      IF k \in DOMAIN event_to_update THEN event_to_update[k] ELSE e[k]]
   : e \in tbl}

\* db.query(Event).filter(Event.id == event_id).update(event_to_update)
BulkUpdate(tbl, event_id, event_to_update) ==
  {IF e.id = event_id
     THEN [k \in DOMAIN e |->
             IF k \in DOMAIN event_to_update THEN event_to_update[k] ELSE e[k]]
     ELSE e : e \in tbl}

\* db.query(UserEvent).filter_by(event_id=event_id).delete()
BulkDeleteUserEvents(tbl, event_id) == {ue \in tbl : ue.event_id # event_id}

\* The users joined to the event through UserEvent.
get_participants_emails_by_event(etbl, uetbl, event_id) ==
  {ue.user_id : ue \in {x \in uetbl :
      x.event_id = event_id /\ \E e \in etbl : e.id = event_id}}

\* The Event row create_model builds from the keyword values.
EventRow(id, values) ==
  [id |-> id, title |-> values.title, start |-> values.start,
   end |-> values.end, content |-> values.content,
   location |-> values.location, owner_id |-> values.owner_id]

UserEventRow(user_id, event_id) == [user_id |-> user_id, event_id |-> event_id]

----------------------------------------------------------------------------
Init ==
  /\ events = {}
  /\ user_events = {}
  /\ next_id = 1
  /\ calls = 0
  /\ op = "idle"
  /\ arg = NoArg
  /\ ret = NoRet

\* A call is made when the previous one has returned.
CanCall == op = "idle" /\ calls < MaxCalls

Call(name, a, r) ==
  /\ op' = name
  /\ arg' = a
  /\ ret' = r
  /\ calls' = calls + 1

\* The ids a caller passes: those issued so far and one never issued.
EventIds == 1..next_id

\* create_model(db, Model, **kwargs) adds one row of the model, and raises
\* without adding it when persistence fails at this step.
create_model(tbl, row, failed) == IF failed THEN tbl ELSE tbl \cup {row}

\* except-clauses of the module.
CaughtByUpdate == {"AttributeError", "SQLAlchemyError", "TypeError"}
CaughtByDelete == {"SQLAlchemyError", "TypeError"}
CaughtByAdd == {"AssertionError", "AttributeError", "TypeError"}

\* The association made with the event's id for the user's.
association_with_event_id(values, event) == UserEventRow(event.id, event.id)

\* The UserEvent row create_event makes for the event it has created.
create_event_association(values, event) ==
  UserEventRow(values.owner_id, event.id)

\* The UserEvent row add_new_event makes for the event it has created.
add_new_event_association(values, new_event) ==
  UserEventRow(values.owner_id, new_event.id)

\* create_event: two create_model calls, no exception handled.
create_event(values, fail) ==
  /\ LET a == Args(0, values, fail)
         row == EventRow(next_id, values)
     IN  IF fail.stage = "event"
         THEN /\ UNCHANGED <<events, user_events, next_id>>
              /\ Call("create_event", a, Returned(fail.exc, 0, {}))
         ELSE /\ events' = create_model(events, row, FALSE)
              /\ next_id' = next_id + 1
              /\ user_events' = create_model(user_events,
                     create_event_association(values, row),
                     fail.stage = "user_event")
              /\ IF fail.stage = "user_event"
                 THEN Call("create_event", a, Returned(fail.exc, 0, {}))
                 ELSE Call("create_event", a, Returned("event", 0, {row}))

\* add_new_event: the validated creation path.
add_new_event(values, fail) ==
  /\ LET a == Args(0, values, fail)
         row == EventRow(next_id, values)
         raised == IF fail.exc \in CaughtByAdd
                   THEN Returned("None", 0, {})
                   ELSE Returned(fail.exc, 0, {})
     IN  IF ~check_date_validation(values.start, values.end)
         THEN /\ fail = NoFailure
              /\ UNCHANGED <<events, user_events, next_id>>
              /\ Call("add_new_event", a, Returned("None", 0, {}))
         ELSE IF fail.stage = "event"
         THEN /\ UNCHANGED <<events, user_events, next_id>>
              /\ Call("add_new_event", a, raised)
         ELSE /\ events' = create_model(events, row, FALSE)
              /\ next_id' = next_id + 1
              /\ user_events' = create_model(user_events,
                     add_new_event_association(values, row),
                     fail.stage = "user_event")
              /\ IF fail.stage = "user_event"
                 THEN Call("add_new_event", a, raised)
                 ELSE Call("add_new_event", a, Returned("event", 0, {row}))

\* get_event_by_id called on its own.
fetch_event(event_id) ==
  /\ LET got == get_event_by_id(events, event_id)
     IN  Call("get_event_by_id", Args(event_id, <<>>, NoFailure),
              Returned(IF got.tag = "ok" THEN "event" ELSE got.tag, 0, got.rows))
  /\ UNCHANGED <<events, user_events, next_id>>

\* The exception a handler raises for get_event_by_id's exception.
HTTPException(tag) ==
  Returned("HTTPException", IF tag = "NoResultFound" THEN 404 ELSE 500, {})

\* GET /event/{event_id}
eventview(event_id) ==
  /\ LET got == get_event_by_id(events, event_id)
     IN  Call("eventview", Args(event_id, <<>>, NoFailure),
              IF got.tag = "ok"
              THEN Returned("TemplateResponse", 200, got.rows)
              ELSE HTTPException(got.tag))
  /\ UNCHANGED <<events, user_events, next_id>>

\* update_event
update_event(event_id, event, fail) ==
  /\ LET a == Args(event_id, event, fail)
         event_to_update == get_items_that_can_be_updated(event)
         got == get_event_by_id(events, event_id)
         old_event == CHOOSE e \in got.rows : TRUE
         updated == BulkUpdate(events, event_id, event_to_update)
         again == get_event_by_id(updated, event_id)
         raised == IF fail.exc \in CaughtByUpdate
                   THEN Returned("None", 0, {})
                   ELSE Returned(fail.exc, 0, {})
     IN  IF DOMAIN event_to_update = {}
         THEN /\ fail = NoFailure
              /\ UNCHANGED events
              /\ Call("update_event", a, Returned("None", 0, {}))
         ELSE IF got.tag # "ok"
         THEN /\ fail = NoFailure
              /\ UNCHANGED events
              /\ Call("update_event", a, HTTPException(got.tag))
         ELSE IF ~is_it_possible_to_change_dates(old_event, event_to_update)
         THEN /\ fail = NoFailure
              /\ UNCHANGED events
              /\ Call("update_event", a, Returned("None", 0, {}))
         ELSE IF fail.stage = "update"
         THEN /\ UNCHANGED events
              /\ Call("update_event", a, raised)
         ELSE IF fail.stage = "commit"
         THEN /\ events' = updated
              /\ Call("update_event", a, raised)
         ELSE /\ events' = updated
              /\ Call("update_event", a,
                      IF again.tag = "ok" THEN Returned("event", 0, again.rows)
                      ELSE Returned(again.tag, 0, {}))
  /\ UNCHANGED <<user_events, next_id>>

\* DELETE /event/{event_id}, the first handler registered on the router.
delete_event(event_id, fail) ==
  /\ LET a == Args(event_id, <<>>, fail)
         got == get_event_by_id(events, event_id)
         participants ==
           get_participants_emails_by_event(events, user_events, event_id)
         failed == IF fail.exc \in CaughtByDelete
                   THEN Returned("TemplateResponse", 500, {})
                   ELSE Returned(fail.exc, 0, {})
     IN  IF got.tag # "ok"
         THEN /\ fail = NoFailure
              /\ UNCHANGED <<events, user_events>>
              /\ Call("delete_event", a, HTTPException(got.tag))
         ELSE IF fail.stage = "delete"
         THEN /\ UNCHANGED <<events, user_events>>
              /\ Call("delete_event", a, failed)
         ELSE IF fail.stage = "bulk_delete"
         THEN /\ events' = events \ got.rows
              /\ UNCHANGED user_events
              /\ Call("delete_event", a, failed)
         ELSE /\ events' = events \ got.rows
              /\ user_events' = BulkDeleteUserEvents(user_events, event_id)
              /\ IF fail.stage = "commit"
                 THEN Call("delete_event", a, failed)
                 ELSE Call("delete_event", a,
                           Returned("RedirectResponse", 200, {}))
  /\ UNCHANGED next_id

\* The second delete_event of the module: by_id is not defined.
delete_event_by_id(event_id) ==
  /\ Call("delete_event_by_id", Args(event_id, <<>>, NoFailure),
          Returned("NameError", 0, {}))
  /\ UNCHANGED <<events, user_events, next_id>>

\* The call has returned; the session stays with the caller.
Respond ==
  /\ op # "idle"
  /\ op' = "idle"
  /\ arg' = NoArg
  /\ ret' = NoRet
  /\ UNCHANGED <<events, user_events, next_id, calls>>

\* One call of each function or handler, with its inputs.
call_create_event ==
  CanCall /\ \E v \in NewValues, f \in Failures({"event", "user_event"}) :
    create_event(v, f)

call_add_new_event ==
  CanCall /\ \E v \in NewValues, f \in Failures({"event", "user_event"}) :
    add_new_event(v, f)

call_get_event_by_id == CanCall /\ \E id \in EventIds : fetch_event(id)

call_eventview == CanCall /\ \E id \in EventIds : eventview(id)

call_update_event ==
  CanCall /\ \E id \in EventIds, m \in Mappings,
               f \in Failures({"update", "commit"}) :
    update_event(id, m, f)

call_delete_event ==
  CanCall /\ \E id \in EventIds,
               f \in Failures({"delete", "bulk_delete", "commit"}) :
    delete_event(id, f)

call_delete_event_by_id == CanCall /\ \E id \in EventIds : delete_event_by_id(id)

Next ==
  \/ call_create_event
  \/ call_add_new_event
  \/ call_get_event_by_id
  \/ call_eventview
  \/ call_update_event
  \/ call_delete_event
  \/ call_delete_event_by_id
  \/ Respond

Spec == Init /\ [][Next]_vars

----------------------------------------------------------------------------
\* The lookups on an Event table that a test fixture has filled, rows with
\* one id twice included (the table has no such rows after the module's own
\* inserts).
FixtureRows ==
  [id : {1, 2}, title : {"a", "b"}, start : {9}, end : {10},
   content : {NoValue}, location : {NoValue}, owner_id : {1}]

InitFetch ==
  /\ events \in SUBSET FixtureRows
  /\ user_events = {UserEventRow(e.owner_id, e.id) : e \in events}
  /\ next_id = 3
  /\ calls = 0
  /\ op = "idle"
  /\ arg = NoArg
  /\ ret = NoRet

NextFetch ==
  \/ call_get_event_by_id
  \/ call_eventview
  \/ call_delete_event
  \/ Respond

SpecFetch == InitFetch /\ [][NextFetch]_vars
----------------------------------------------------------------------------
\* Properties.

\* The rows of a table with the given event id.
EventsWithId(tbl, id) == {e \in tbl : e.id = id}
UserEventsOf(tbl, id) == {ue \in tbl : ue.event_id = id}
TablesUnchanged == events' = events /\ user_events' = user_events

\* The range an update would leave: start and end from the mapping where it
\* has them, from the stored event otherwise.
EffectiveStart(m, e) == IF "start" \in DOMAIN m THEN m["start"] ELSE e.start
EffectiveEnd(m, e) == IF "end" \in DOMAIN m THEN m["end"] ELSE e.end

\* C1: delete_event is atomic over both tables: after it returns, either the
\* Event row and every UserEvent row of that event are gone (success), or
\* both tables are as they were before the call.
C1_DeleteAtomic ==
  [][op' \in {"delete_event", "delete_event_by_id"} =>
       \/ /\ ret'.kind = "RedirectResponse"
          /\ EventsWithId(events', arg'.event_id) = {}
          /\ UserEventsOf(user_events', arg'.event_id) = {}
       \/ /\ ret'.kind # "RedirectResponse"
          /\ TablesUnchanged]_vars

\* C2: every Event row has a UserEvent row with its id and its owner's id.
C2_EveryEventHasOwnerRow ==
  \A e \in events :
    \E ue \in user_events : ue.event_id = e.id /\ ue.user_id = e.owner_id

\* C3: an update of an existing event whose effective range has start >= end
\* returns None and leaves the stored event unchanged, whichever of start and
\* end the mapping supplies.
C3_InvalidRangeRejected ==
  [][(/\ op' = "update_event"
      /\ \E e \in events :
           /\ EventsWithId(events, arg'.event_id) = {e}
           /\ EffectiveStart(arg'.event, e) >= EffectiveEnd(arg'.event, e))
     => ret'.kind = "None" /\ TablesUnchanged]_vars

\* C3 witness: a start-only update of a valid stored event was rejected
\* because the new start is not before the stored end.
C3_Witness ==
  /\ op = "update_event"
  /\ ret.kind = "None"
  /\ DOMAIN arg.event = {"start"}
  /\ \E e \in events :
       /\ e.id = arg.event_id
       /\ e.start < e.end
       /\ arg.event["start"] >= e.end

\* C4: when the bulk update or the commit of update_event raises, the call
\* returns None and both tables are as they were before the call.
C4_FailedUpdateLeavesNoTrace ==
  [][(op' = "update_event" /\ arg'.fail # "none")
     => ret'.kind = "None" /\ TablesUnchanged]_vars

\* C5: a creation that returns an event has added exactly that Event row and
\* exactly one UserEvent row, of the owner and the new event, and nothing
\* else of either table has changed.
C5_CreateAddsOneOfEach ==
  [][(op' \in {"create_event", "add_new_event"} /\ ret'.kind = "event")
     => \E row \in ret'.rows :
          /\ ret'.rows = {row}
          /\ EventsWithId(events, row.id) = {}
          /\ events' = events \cup {row}
          /\ row.owner_id = arg'.event.owner_id
          /\ UserEventsOf(user_events, row.id) = {}
          /\ user_events' = user_events
                \cup {[user_id |-> row.owner_id, event_id |-> row.id]}]_vars

\* C5 witness: an event was created beside an existing one, by a user other
\* than the one whose id equals the new event's id.
C5_Witness ==
  /\ op = "create_event"
  /\ ret.kind = "event"
  /\ Cardinality(events) = 2
  /\ \E row \in ret.rows : row.owner_id # row.id

\* C6: get_event_by_id raises NoResultFound for no row with the id,
\* MultipleResultsFound for two or more, returns the row for exactly one,
\* and changes nothing; eventview and delete_event turn the first into 404
\* and the second into 500.
C6_FetchOutcomes ==
  [][LET n == Cardinality(EventsWithId(events, arg'.event_id))
     IN  /\ op' = "get_event_by_id" =>
              /\ TablesUnchanged
              /\ n = 0 => ret'.kind = "NoResultFound"
              /\ n >= 2 => ret'.kind = "MultipleResultsFound"
              /\ n = 1 => /\ ret'.kind = "event"
                          /\ ret'.rows = EventsWithId(events, arg'.event_id)
         /\ op' \in {"eventview", "delete_event"} =>
              /\ n = 0 => /\ ret'.kind = "HTTPException"
                          /\ ret'.status = 404
                          /\ TablesUnchanged
              /\ n >= 2 => /\ ret'.kind = "HTTPException"
                           /\ ret'.status = 500
                           /\ TablesUnchanged
              /\ n = 1 => ret'.kind # "HTTPException"]_vars

\* C6 witness: delete_event answered 500 for an id that two rows carry.
C6_Witness ==
  /\ op = "delete_event"
  /\ ret.kind = "HTTPException"
  /\ ret.status = 500
  /\ Cardinality(EventsWithId(events, arg.event_id)) = 2

\* C7: update_event with a mapping that has none of the five editable keys
\* returns None and changes no row, whether or not the id exists.
C7_IrrelevantMappingIsNoOp ==
  [][(op' = "update_event" /\ DOMAIN arg'.event \cap EditableKeys = {})
     => ret'.kind = "None" /\ TablesUnchanged]_vars

\* C7 witness: a mapping of id and owner_id only, for an id that has no row.
C7_Witness ==
  /\ op = "update_event"
  /\ ret.kind = "None"
  /\ DOMAIN arg.event = {"id", "owner_id"}
  /\ EventsWithId(events, arg.event_id) = {}
  /\ events # {}

\* C8: with start >= end, create_event stores the event and its owner row
\* (when persistence does not fail), and add_new_event returns None and
\* inserts nothing.
C8_CreationPathsDiffer ==
  [][/\ (/\ op' = "create_event"
         /\ arg'.event.start >= arg'.event.end
         /\ arg'.fail = "none")
        => /\ ret'.kind = "event"
           /\ \E row \in events' \ events :
                /\ row.start = arg'.event.start
                /\ row.end = arg'.event.end
                /\ [user_id |-> arg'.event.owner_id, event_id |-> row.id]
                     \in user_events' \ user_events
     /\ (op' = "add_new_event" /\ arg'.event.start >= arg'.event.end)
        => ret'.kind = "None" /\ TablesUnchanged]_vars

\* C8 witness: add_new_event refused a start that equals the end, on a
\* session where create_event has stored an event with start after end.
C8_Witness ==
  /\ op = "add_new_event"
  /\ ret.kind = "None"
  /\ arg.event.start = arg.event.end
  /\ \E e \in events : e.start > e.end

\* C9: an update that returns an event has set, in the one row with the id,
\* the editable fields of the mapping to the mapping's values and nothing
\* else; every other row of both tables is unchanged and the event returned
\* is the stored row.
C9_UpdateFrame ==
  [][(op' = "update_event" /\ ret'.kind = "event")
     => \E old \in events :
          LET m == arg'.event
              new == [k \in DOMAIN old |->
                        IF k \in EditableKeys \cap DOMAIN m THEN m[k]
                        ELSE old[k]]
          IN  /\ old.id = arg'.event_id
              /\ events' = (events \ {old}) \cup {new}
              /\ ret'.rows = {new}
              /\ user_events' = user_events]_vars

\* C9 witness: an update of title that also carried id and owner_id returned
\* the event, with a second event and the owner rows in the tables.
C9_Witness ==
  /\ op = "update_event"
  /\ ret.kind = "event"
  /\ DOMAIN arg.event = {"title", "id", "owner_id"}
  /\ Cardinality(events) = 2
  /\ Cardinality(user_events) = 2
  /\ \E e \in events : e.title = "a"

\* C10: an event that update_event returns is stored with start < end, and
\* an event stored with start >= end is changed by an update only if the
\* mapping supplies start or end and the effective range is valid.
C10_UpdateKeepsRangeValid ==
  [][op' = "update_event" =>
       /\ ret'.kind = "event" =>
            \A r \in ret'.rows : r \in events' /\ r.start < r.end
       /\ \A e \in events :
            (e.start >= e.end /\ e \notin events') =>
              /\ DOMAIN arg'.event \cap {"start", "end"} # {}
              /\ EffectiveStart(arg'.event, e) < EffectiveEnd(arg'.event, e)]_vars

\* C10 witness: a title-only update of an event that create_event stored
\* with start >= end was rejected.
C10_Witness ==
  /\ op = "update_event"
  /\ ret.kind = "None"
  /\ DOMAIN arg.event = {"title"}
  /\ \E e \in events :
       /\ e.id = arg.event_id
       /\ e.start >= e.end
       /\ e.title = "a"
====
